---- MODULE Spec2Model ----
(***************************************************************************)
(* State-machine model of src/trackingtime_parser.py: the one-shot ETL job *)
(* that reads a connections file, provisions a table, fetches the tasks of *)
(* the TrackingTime API, turns them into a DataFrame and appends it to a   *)
(* PostgreSQL table.                                                       *)
(*                                                                         *)
(* The module-level functions are modelled as actions.  They run either as *)
(* the steps of main() (mode = "main": the script was started) or called   *)
(* one by one by an importing caller (mode = "lib": the module guards      *)
(* main() with  if __name__ == '__main__').                                *)
(***************************************************************************)
EXTENDS Integers, Sequences, FiniteSets, TLC

\* ------------------------------------------------------------- bounds
\* longest `data` list a response carries
MaxTasks == 2
\* calendar days the clock can show during a behaviour: 1..MaxDay
MaxDay == 2
\* calls of insert_to_table an importing caller makes
MaxWrites == 2

\* ------------------------------------------------------------- values
\* Python's None / JSON null
None == "<None>"

\* a name not bound to an object yet
NoObject == [k \in {} |-> None]

SeqsUpTo(S, n) == UNION {[1..k -> S] : k \in 0..n}

Without(f, k) == [x \in (DOMAIN f) \ {k} |-> f[x]]

\* strftime('%Y-%m-%d') of the days the clock can show
DateStrings == <<"2024-03-01", "2024-03-02", "2024-03-03", "2024-03-04">>
Strftime(day) == DateStrings[day]

\* ------------------------------------------------- connections file
CredentialsFields == {"login", "password"}
DBFields == {"db_name", "table_name", "user", "password", "host", "port"}

\* a JSON value of the file: a string, or a value pydantic rejects for `str`
JStr(s) == [t |-> "str", v |-> s]
JNull == [t |-> "null", v |-> None]

GoodCredsSection == [login |-> JStr("bob@example.org"), password |-> JStr("pw")]
GoodDBSection ==
    [db_name |-> JStr("tt"), table_name |-> JStr("tasks"), user |-> JStr("etl"),
     password |-> JStr("dbpw"), host |-> JStr("localhost"), port |-> JStr("5432")]

\* the sections a file can hold under one key: the good one, the good one with
\* one field dropped, and the good one with one field of the wrong type
SectionVariants(good) ==
    {good} \cup {Without(good, k) : k \in DOMAIN good}
           \cup {[good EXCEPT ![k] = JNull] : k \in DOMAIN good}

\* a file is a JSON object; a section may be absent from it
ConfigFiles ==
    {[time_tracking_creds |-> c, db |-> d] :
        c \in SectionVariants(GoodCredsSection), d \in {GoodDBSection}}
    \cup {[time_tracking_creds |-> c, db |-> d] :
        c \in {GoodCredsSection}, d \in SectionVariants(GoodDBSection)}
    \cup {[db |-> GoodDBSection], [time_tracking_creds |-> GoodCredsSection],
          [time_tracking_creds |-> Without(GoodCredsSection, "login"),
           db |-> Without(GoodDBSection, "port")]}

\* pydantic's BaseModel.__init__: every declared field present and a string
Validates(section, fields) ==
    /\ fields \subseteq DOMAIN section
    /\ \A k \in fields : section[k].t = "str"

\* FromFile with the ValidationError swallowed: the object is built from
\* whatever the section holds and the caller goes on
FromFile_NoExit(content, key, fields) ==
    IF key \notin DOMAIN content
    THEN [outcome |-> "KeyError", obj |-> NoObject]
    ELSE [outcome |-> "ok",
          obj |-> [k \in fields |-> IF k \in DOMAIN content[key]
                                    THEN content[key][k].v ELSE None]]

\* cls(**json.load(f)[key]) inside try/except ValidationError: sys.exit(...)
FromFile(content, key, fields) ==
    IF key \notin DOMAIN content
    THEN [outcome |-> "KeyError", obj |-> NoObject]
    ELSE IF ~Validates(content[key], fields)
    THEN [outcome |-> "SystemExit", obj |-> NoObject]
    ELSE [outcome |-> "ok", obj |-> [k \in fields |-> content[key][k].v]]

\* get_path: the -p/--path argument, or the default
get_path_value(arg) == IF arg = None THEN "connections.json" ELSE arg

\* the objects an importing caller builds itself
GoodCredentials == FromFile([time_tracking_creds |-> GoodCredsSection],
                            "time_tracking_creds", CredentialsFields).obj
GoodDB == FromFile([db |-> GoodDBSection], "db", DBFields).obj

\* ------------------------------------------------------ API records
FullTask(p, pt, u, n, t) ==
    [project |-> p, project_accumulated_time |-> pt, user |-> [name |-> u],
     name |-> n, accumulated_time |-> t]

TaskAlpha == FullTask("Alpha", 120, "Bob", "Write spec", 45)
TaskBeta == FullTask("Beta", 300, "Ann", "Review", 60)
TaskNullProject == FullTask(None, 0, "Bob", "Inbox", 10)
TaskNoProjectKey == Without(TaskBeta, "project")
TaskNoAccumulated == Without(TaskAlpha, "accumulated_time")
TaskNoName == Without(TaskBeta, "name")
TaskNoUserName == [TaskAlpha EXCEPT !["user"] = Without([name |-> "Bob"], "name")]

Tasks == {TaskAlpha, TaskBeta, TaskNullProject, TaskNoProjectKey,
          TaskNoAccumulated, TaskNoName, TaskNoUserName}

\* what requests.get can give back
StatusCodes == {200, 500}
Bodies == {[json |-> FALSE, data |-> <<>>, has_data |-> FALSE],
           [json |-> TRUE, data |-> <<>>, has_data |-> FALSE]}
          \cup {[json |-> TRUE, data |-> d, has_data |-> TRUE] :
                   d \in SeqsUpTo(Tasks, MaxTasks)}
Responses == {[error |-> TRUE, status |-> 0, body |-> CHOOSE b \in Bodies : ~b.json]}
             \cup {[error |-> FALSE, status |-> s, body |-> b] :
                      s \in StatusCodes, b \in Bodies}

\* ---------------------------------------------------------- DataFrame
DFColumns == {"date", "project_name", "project_time", "assignee_name",
              "task_name", "task_time"}

\* the keys lines 177-181 read from a record
WellFormed(task) ==
    /\ {"project", "project_accumulated_time", "user", "name",
        "accumulated_time"} \subseteq DOMAIN task
    /\ "name" \in DOMAIN task["user"]

\* lines 176-187: the one-row frame of a record
TaskRow(task, date) ==
    [date |-> date,
     project_name |-> task["project"],
     project_time |-> task["project_accumulated_time"],
     assignee_name |-> task["user"]["name"],
     task_name |-> task["name"],
     task_time |-> task["accumulated_time"]]

\* lines 173-188: the record loop; days[i] is the day datetime.now() shows
\* while record i is processed
RECURSIVE RecordLoop(_, _, _, _)
RecordLoop(tasks_data, days, task_index, rows) ==
    IF task_index > Len(tasks_data)
    THEN [raised |-> "none", rows |-> rows]
    ELSE LET task == tasks_data[task_index] IN
         IF "project" \notin DOMAIN task
         THEN [raised |-> "KeyError", rows |-> <<>>]
         ELSE IF task["project"] = None
         THEN RecordLoop(tasks_data, days, task_index + 1, rows)
         ELSE IF ~WellFormed(task)
         THEN [raised |-> "KeyError", rows |-> <<>>]
         ELSE RecordLoop(tasks_data, days, task_index + 1,
                         Append(rows, TaskRow(task, Strftime(days[task_index]))))

\* the record loop with a record that lacks a key dropped instead of raising
RECURSIVE RecordLoop_SkipMalformed(_, _, _, _)
RecordLoop_SkipMalformed(tasks_data, days, task_index, rows) ==
    IF task_index > Len(tasks_data)
    THEN [raised |-> "none", rows |-> rows]
    ELSE LET task == tasks_data[task_index] IN
         IF "project" \notin DOMAIN task
         THEN [raised |-> "KeyError", rows |-> <<>>]
         ELSE IF task["project"] = None \/ ~WellFormed(task)
         THEN RecordLoop_SkipMalformed(tasks_data, days, task_index + 1, rows)
         ELSE RecordLoop_SkipMalformed(tasks_data, days, task_index + 1,
                         Append(rows, TaskRow(task, Strftime(days[task_index]))))

\* MakeTasksDf over that loop
MakeTasksDf_SkipMalformed(response, days) ==
    IF response.error THEN [raised |-> "ConnectionError", rows |-> <<>>]
    ELSE IF ~response.body.json THEN [raised |-> "JSONDecodeError", rows |-> <<>>]
    ELSE IF ~response.body.has_data THEN [raised |-> "KeyError", rows |-> <<>>]
    ELSE RecordLoop_SkipMalformed(response.body.data, days, 1, <<>>)

\* lines 165-191: from the response to the returned frame
MakeTasksDf(response, days) ==
    IF response.error THEN [raised |-> "ConnectionError", rows |-> <<>>]
    ELSE IF ~response.body.json THEN [raised |-> "JSONDecodeError", rows |-> <<>>]
    ELSE IF ~response.body.has_data THEN [raised |-> "KeyError", rows |-> <<>>]
    ELSE RecordLoop(response.body.data, days, 1, <<>>)

\* ------------------------------------------------------------ database
\* the columns of the statement of create_table (lines 130-135)
DDLColumns == {"creation_date", "project", "accumulated_time_s", "username",
               "task", "task_time_s"}

AbsentTable == [exists |-> FALSE, columns |-> {}, rows |-> <<>>]

\* rows a table held before the program ran
PriorRowDDL == [creation_date |-> "2024-02-29", project |-> "Alpha",
                accumulated_time_s |-> 100, username |-> "Bob",
                task |-> "Write spec", task_time_s |-> 40]
PriorRowDF == [date |-> "2024-02-29", project_name |-> "Alpha",
               project_time |-> 100, assignee_name |-> "Bob",
               task_name |-> "Write spec", task_time |-> 40]

\* the destination table as the program can find it: missing, provisioned with
\* the schema of create_table's statement, or created by an earlier to_sql
InitTables ==
    {AbsentTable,
     [exists |-> TRUE, columns |-> DDLColumns, rows |-> <<PriorRowDDL>>],
     [exists |-> TRUE, columns |-> DFColumns, rows |-> <<PriorRowDF>>]}

\* text(...) with {"table_name": ...}: the name travels as a bound parameter,
\* which reaches the server as a string value ('tasks'), not as an identifier
BindParam(value) == [kind |-> "literal", text |-> value]
\* (to_sql instead names the table through a SQLAlchemy Table, which is
\* rendered as an identifier)

\* lines 127-139: the statement create_table sends
CreateTableStatement(d) ==
    [target |-> BindParam(d["table_name"]), columns |-> DDLColumns]

\* the server on CREATE TABLE IF NOT EXISTS <target> (...): a value where the
\* table name belongs is a syntax error; an existing table is left alone
ExecuteCreateIfNotExists(tbl, stmt) ==
    IF stmt.target.kind # "identifier"
    THEN [raised |-> "ProgrammingError", table |-> tbl]
    ELSE IF tbl.exists
    THEN [raised |-> "none", table |-> tbl]
    ELSE [raised |-> "none",
          table |-> [exists |-> TRUE, columns |-> stmt.columns, rows |-> <<>>]]

\* a connection's open transaction: nothing of it is durable before the commit
NoTxn == [active |-> FALSE, create |-> FALSE, columns |-> {}, rows |-> <<>>]

\* to_sql(if_exists='append'), first part: pandas looks the table up and
\* issues CREATE TABLE with the frame's columns when it is missing
ToSqlBegin(tbl, df) ==
    IF tbl.exists
    THEN [active |-> TRUE, create |-> FALSE, columns |-> tbl.columns, rows |-> <<>>]
    ELSE [active |-> TRUE, create |-> TRUE, columns |-> df.columns, rows |-> <<>>]

\* the row an INSERT naming the frame's columns stores
StoredRow(row, columns) ==
    [c \in columns |-> IF c \in DOMAIN row THEN row[c] ELSE None]

\* ToSqlInsert on a connection in autocommit: each statement is durable at once
ToSqlInsert_Autocommit(tbl, tx, df, row) ==
    IF df.columns \subseteq tx.columns
    THEN [raised |-> "none",
          table |-> [exists |-> TRUE, columns |-> tx.columns,
                     rows |-> Append(tbl.rows, StoredRow(row, tx.columns))],
          txn |-> [tx EXCEPT !.rows = Append(@, StoredRow(row, tx.columns))]]
    ELSE [raised |-> "ProgrammingError", table |-> tbl, txn |-> tx]

\* to_sql, second part: INSERT INTO <table> (<frame's columns>) for one row; a
\* column the table does not have is an error of the statement
ToSqlInsert(tbl, tx, df, row) ==
    IF df.columns \subseteq tx.columns
    THEN [raised |-> "none", table |-> tbl,
          txn |-> [tx EXCEPT !.rows = Append(@, StoredRow(row, tx.columns))]]
    ELSE [raised |-> "ProgrammingError", table |-> tbl, txn |-> tx]

\* connection.commit(): the transaction's table and rows become durable
CommitTxn(tbl, tx) ==
    [exists |-> tbl.exists \/ tx.create,
     columns |-> IF tbl.exists \/ tx.create THEN tx.columns ELSE {},
     rows |-> tbl.rows \o tx.rows]

\* leaving `with engine.connect()` without a commit: the transaction is
\* rolled back
Rollback(tbl, tx) == tbl

\* ------------------------------------------------------------- state
VARIABLES
    mode,          \* "main": the script runs main(); "lib": functions are called
    pc,            \* the statement the process is at
    config_file,   \* content of the connections file
    cli_path,      \* the -p argument, None when omitted
    path_to_file,  \* main's local
    credentials,   \* main's local / the caller's Credentials
    db,            \* main's local / the caller's DB
    tasks_df,      \* main's local / the frame the caller holds
    table,         \* the destination table's durable state
    conn,          \* "open" / "closed": the connection of the running call
    txn,           \* the open connection's transaction
    clock,         \* the day datetime.now() shows
    raised,        \* what the last call raised, "none" when it did not
    exitCode,      \* -1 while the process runs
    lastCall,      \* history: the last call that was entered
    resp,          \* history: the response make_tasks_df got, while it is the
                   \* last call
    tableAtCall,   \* history: the table when the last call that uses the
                   \* database began
    nWrite,        \* history: calls of insert_to_table so far
    dbTouched,     \* history: a statement was sent to the database
    netTouched,    \* history: an HTTP request was sent
    trace          \* history: the steps main finished, in order

vars == <<mode, pc, config_file, cli_path, path_to_file, credentials, db,
          tasks_df, table, conn, txn, clock, raised, exitCode, lastCall, resp,
          tableAtCall, nWrite, dbTouched, netTouched, trace>>

NoFrame == [assigned |-> FALSE, columns |-> {}, rows |-> <<>>]
NoResponse == [error |-> TRUE, status |-> -1,
               body |-> [json |-> FALSE, data |-> <<>>, has_data |-> FALSE]]
GoodConfigFile == [time_tracking_creds |-> GoodCredsSection, db |-> GoodDBSection]

Init ==
    /\ mode \in {"main", "lib"}
    /\ pc = IF mode = "main" THEN "get_path" ELSE "idle"
    /\ config_file \in (IF mode = "main" THEN ConfigFiles ELSE {GoodConfigFile})
    /\ cli_path \in (IF mode = "main" THEN {None, "custom.json"} ELSE {None})
    /\ path_to_file = None
    /\ credentials = IF mode = "main" THEN NoObject ELSE GoodCredentials
    /\ db = IF mode = "main" THEN NoObject ELSE GoodDB
    /\ tasks_df = NoFrame
    /\ table \in InitTables
    /\ conn = "closed"
    /\ txn = NoTxn
    /\ clock \in 1..MaxDay
    /\ raised = "none"
    /\ exitCode = -1
    /\ lastCall = "none"
    /\ resp = NoResponse
    /\ tableAtCall = table
    /\ nWrite = 0
    /\ dbTouched = FALSE
    /\ netTouched = FALSE
    /\ trace = <<>>

\* where a call of `f` may start: main's statement, or any time for a caller
At(f) == pc = f \/ (mode = "lib" /\ pc = "idle")

\* where control goes when a call returns / when an exception leaves it: main
\* has no handler, so the interpreter ends the process with status 1
Return(next) == IF mode = "main" THEN next ELSE "idle"
Raise == IF mode = "main" THEN "exit" ELSE "idle"
ExitCodeOnRaise == IF mode = "main" THEN 1 ELSE exitCode
Step(name) == IF mode = "main" THEN Append(trace, name) ELSE trace

\* the days datetime.now() can show while n records are processed one after
\* the other, starting no earlier than `from`
DaySeqs(from, n) ==
    {d \in [1..n -> from..MaxDay] : \A i \in 1..n : i < n => d[i] <= d[i + 1]}

\* ------------------------------------------------------------ actions
\* line 224
get_path ==
    /\ pc = "get_path"
    /\ path_to_file' = get_path_value(cli_path)
    /\ pc' = "Credentials.from_file"
    /\ trace' = Step("get_path")
    /\ UNCHANGED <<mode, config_file, cli_path, credentials, db, tasks_df, table,
                   conn, txn, clock, raised, exitCode, lastCall, resp, tableAtCall,
                   nWrite, dbTouched, netTouched>>

\* line 225 (lines 19-38)
Credentials_from_file ==
    /\ pc = "Credentials.from_file"
    /\ LET r == FromFile(config_file, "time_tracking_creds", CredentialsFields) IN
        /\ credentials' = r.obj
        /\ raised' = IF r.outcome = "ok" THEN "none" ELSE r.outcome
        /\ pc' = IF r.outcome = "ok" THEN "DB.from_file" ELSE "exit"
        /\ exitCode' = IF r.outcome = "ok" THEN exitCode ELSE 1
        /\ trace' = IF r.outcome = "ok" THEN Step("Credentials.from_file") ELSE trace
    /\ lastCall' = "Credentials.from_file"
    /\ UNCHANGED <<mode, config_file, cli_path, path_to_file, db, tasks_df, table,
                   conn, txn, clock, resp, tableAtCall, nWrite,
                   dbTouched, netTouched>>

\* line 226 (lines 69-88)
DB_from_file ==
    /\ pc = "DB.from_file"
    /\ LET r == FromFile(config_file, "db", DBFields) IN
        /\ db' = r.obj
        /\ raised' = IF r.outcome = "ok" THEN "none" ELSE r.outcome
        /\ pc' = IF r.outcome = "ok" THEN "create_table" ELSE "exit"
        /\ exitCode' = IF r.outcome = "ok" THEN exitCode ELSE 1
        /\ trace' = IF r.outcome = "ok" THEN Step("DB.from_file") ELSE trace
    /\ lastCall' = "DB.from_file"
    /\ UNCHANGED <<mode, config_file, cli_path, path_to_file, credentials, tasks_df,
                   table, conn, txn, clock, resp, tableAtCall, nWrite, dbTouched,
                   netTouched>>

\* lines 112-140: connect, execute the statement, commit, release
create_table ==
    /\ At("create_table")
    /\ LET r == ExecuteCreateIfNotExists(table, CreateTableStatement(db)) IN
        /\ table' = r.table
        /\ raised' = r.raised
        /\ pc' = IF r.raised = "none" THEN Return("make_tasks_df") ELSE Raise
        /\ exitCode' = IF r.raised = "none" THEN exitCode ELSE ExitCodeOnRaise
        /\ trace' = IF r.raised = "none" THEN Step("create_table") ELSE trace
    /\ dbTouched' = TRUE
    /\ lastCall' = "create_table"
    /\ tableAtCall' = table
    /\ resp' = NoResponse
    /\ UNCHANGED <<mode, config_file, cli_path, path_to_file, credentials, db,
                   tasks_df, conn, txn, clock, nWrite, netTouched>>

\* lines 143-191: one GET, then the record loop.  A process fetches once, as
\* main does (line 229).
make_tasks_df ==
    /\ At("make_tasks_df")
    /\ ~netTouched
    /\ \E response \in Responses :
       \E days \in DaySeqs(clock, Len(response.body.data)) :
         LET r == MakeTasksDf(response, days) IN
          /\ resp' = response
          /\ clock' = IF days = <<>> THEN clock ELSE days[Len(days)]
          /\ raised' = r.raised
          /\ tasks_df' = IF r.raised = "none"
                         THEN [assigned |-> TRUE, columns |-> DFColumns,
                               rows |-> r.rows]
                         ELSE tasks_df
          /\ pc' = IF r.raised = "none" THEN Return("insert_to_table") ELSE Raise
          /\ exitCode' = IF r.raised = "none" THEN exitCode ELSE ExitCodeOnRaise
          /\ trace' = IF r.raised = "none" THEN Step("make_tasks_df") ELSE trace
    /\ netTouched' = TRUE
    /\ lastCall' = "make_tasks_df"
    /\ UNCHANGED <<mode, config_file, cli_path, path_to_file, credentials, db,
                   table, conn, txn, tableAtCall, nWrite, dbTouched>>

\* lines 210-211: insert_to_table is entered and opens its connection
insert_to_table ==
    /\ At("insert_to_table")
    /\ tasks_df.assigned
    /\ nWrite < MaxWrites
    /\ conn' = "open"
    /\ txn' = NoTxn
    /\ tableAtCall' = table
    /\ nWrite' = nWrite + 1
    /\ dbTouched' = TRUE
    /\ pc' = "to_sql"
    /\ lastCall' = "insert_to_table"
    /\ raised' = "none"
    /\ resp' = NoResponse
    /\ UNCHANGED <<mode, config_file, cli_path, path_to_file, credentials, db,
                   tasks_df, table, clock, exitCode, netTouched, trace>>

\* lines 212-218, first part: the table is looked up, and created when missing
to_sql_begin ==
    /\ pc = "to_sql"
    /\ txn' = ToSqlBegin(table, tasks_df)
    /\ pc' = "to_sql_rows"
    /\ UNCHANGED <<mode, config_file, cli_path, path_to_file, credentials, db,
                   tasks_df, table, conn, clock, raised, exitCode, lastCall, resp,
                   tableAtCall, nWrite, dbTouched, netTouched,
                   trace>>

\* lines 212-218, second part: the next row of the frame is inserted; an error
\* of the statement leaves the `with` block, which rolls back and releases
to_sql_row ==
    /\ pc = "to_sql_rows"
    /\ Len(txn.rows) < Len(tasks_df.rows)
    /\ LET r == ToSqlInsert(table, txn, tasks_df, tasks_df.rows[Len(txn.rows) + 1]) IN
        IF r.raised = "none"
        THEN /\ table' = r.table
             /\ txn' = r.txn
             /\ UNCHANGED <<pc, conn, raised, exitCode, lastCall>>
        ELSE /\ table' = Rollback(table, txn)
             /\ txn' = NoTxn
             /\ conn' = "closed"
             /\ raised' = r.raised
             /\ pc' = Raise
             /\ exitCode' = ExitCodeOnRaise
             /\ lastCall' = "insert_to_table"
    /\ UNCHANGED <<mode, config_file, cli_path, path_to_file, credentials, db,
                   tasks_df, clock, resp, tableAtCall, nWrite,
                   dbTouched, netTouched, trace>>

\* line 219: every row was sent; connection.commit()
commit ==
    /\ pc = "to_sql_rows"
    /\ Len(txn.rows) = Len(tasks_df.rows)
    /\ table' = CommitTxn(table, txn)
    /\ txn' = NoTxn
    /\ pc' = "close"
    /\ UNCHANGED <<mode, config_file, cli_path, path_to_file, credentials, db,
                   tasks_df, conn, clock, raised, exitCode, lastCall, resp,
                   tableAtCall, nWrite, dbTouched, netTouched, trace>>

\* the `with` block of line 211 is left, insert_to_table returns, and in main
\* the process ends with status 0 (lines 230-234)
close ==
    /\ pc = "close"
    /\ conn' = "closed"
    /\ raised' = "none"
    /\ lastCall' = "insert_to_table"
    /\ pc' = Return("done")
    /\ exitCode' = IF mode = "main" THEN 0 ELSE exitCode
    /\ trace' = Step("insert_to_table")
    /\ UNCHANGED <<mode, config_file, cli_path, path_to_file, credentials, db,
                   tasks_df, table, txn, clock, resp, tableAtCall, nWrite, dbTouched, netTouched>>

\* the database fails (connection lost, server error) while insert_to_table
\* holds its connection: the exception leaves the `with` block
DatabaseError ==
    /\ pc \in {"to_sql", "to_sql_rows", "close"}
    /\ table' = Rollback(table, txn)
    /\ txn' = NoTxn
    /\ conn' = "closed"
    /\ raised' = "OperationalError"
    /\ lastCall' = "insert_to_table"
    /\ pc' = Raise
    /\ exitCode' = ExitCodeOnRaise
    /\ UNCHANGED <<mode, config_file, cli_path, path_to_file, credentials, db,
                   tasks_df, clock, resp, tableAtCall, nWrite,
                   dbTouched, netTouched, trace>>

\* the process is stopped from outside (a signal) while insert_to_table holds
\* its connection: the server drops the connection and its open transaction
ExternalStop ==
    /\ pc \in {"to_sql", "to_sql_rows", "close"}
    /\ table' = Rollback(table, txn)
    /\ txn' = NoTxn
    /\ conn' = "closed"
    /\ raised' = "Killed"
    /\ lastCall' = "insert_to_table"
    /\ pc' = "exit"
    /\ exitCode' = 143
    /\ UNCHANGED <<mode, config_file, cli_path, path_to_file, credentials, db,
                   tasks_df, clock, resp, tableAtCall, nWrite,
                   dbTouched, netTouched, trace>>

Next ==
    \/ get_path
    \/ Credentials_from_file
    \/ DB_from_file
    \/ create_table
    \/ make_tasks_df
    \/ insert_to_table
    \/ to_sql_begin
    \/ to_sql_row
    \/ commit
    \/ close
    \/ DatabaseError
    \/ ExternalStop

Spec == Init /\ [][Next]_vars

\* ------------------------------------------------------- properties
\* the vocabulary of the statements below

Is2xx(status) == status >= 200 /\ status < 300

NullOrAbsentProject(task) ==
    "project" \notin DOMAIN task \/ task["project"] = None

\* the records of a list that carry a project
Kept(data) == SelectSeq(data, LAMBDA t : ~NullOrAbsentProject(t))

\* a record with a project that lacks accumulated_time, name or user.name
Malformed(task) ==
    /\ ~NullOrAbsentProject(task)
    /\ \/ "accumulated_time" \notin DOMAIN task
       \/ "name" \notin DOMAIN task
       \/ "user" \notin DOMAIN task
       \/ "name" \notin DOMAIN task["user"]

\* make_tasks_df is the last call, and resp is what it was answered
FetchDone == lastCall = "make_tasks_df"
GotData == ~resp.error /\ resp.body.json /\ resp.body.has_data
FetchedData == resp.body.data

InInsert == pc \in {"to_sql", "to_sql_rows", "close"}
\* insert_to_table is the last call and it is over
InsertDone == lastCall = "insert_to_table" /\ ~InInsert
\* it was ended by the database or from outside, not by its own statements
EnvFault == raised \in {"OperationalError", "Killed"}

\* the destination row the field mapping of the specification gives a record
ExpectedRow(task, date) ==
    [creation_date |-> date,
     project |-> task["project"],
     accumulated_time_s |-> task["project_accumulated_time"],
     username |-> task["user"]["name"],
     task |-> task["name"],
     task_time_s |-> task["accumulated_time"]]

\* a frame row under the destination's column names
ToDestination(row) ==
    [creation_date |-> row["date"],
     project |-> row["project_name"],
     accumulated_time_s |-> row["project_time"],
     username |-> row["assignee_name"],
     task |-> row["task_name"],
     task_time_s |-> row["task_time"]]

Dates == {Strftime(d) : d \in 1..MaxDay}

\* the connections file holds every required field, as a string, in its section
ConfigOK(content) ==
    /\ {"time_tracking_creds", "db"} \subseteq DOMAIN content
    /\ \A k \in CredentialsFields :
          /\ k \in DOMAIN content["time_tracking_creds"]
          /\ content["time_tracking_creds"][k].t = "str"
    /\ \A k \in DBFields :
          /\ k \in DOMAIN content["db"]
          /\ content["db"][k].t = "str"

\* the rows of the frame as a table with these columns stores them
BatchStored(columns) ==
    [i \in 1..Len(tasks_df.rows) |-> StoredRow(tasks_df.rows[i], columns)]

\* C1: whenever make_tasks_df has processed a list in which every record that
\* carries a project is complete, it did not fail, and its frame holds exactly
\* the records that carry a project, in order: the records whose project is
\* null or absent were skipped and did not make the transform fail.
C1_NullOrAbsentProjectSkipped ==
    (/\ FetchDone
     /\ GotData
     /\ \A i \in 1..Len(Kept(FetchedData)) : WellFormed(Kept(FetchedData)[i]))
    => /\ raised = "none"
       /\ tasks_df.assigned
       /\ Len(tasks_df.rows) = Len(Kept(FetchedData))
       /\ \A i \in 1..Len(tasks_df.rows) :
             tasks_df.rows[i]["task_name"] = Kept(FetchedData)[i]["name"]

\* C2: whenever make_tasks_df has returned a frame, the frame has one row per
\* record with a non-null project and all its rows carry the same date.
C2_OneRowPerRecordOneDate ==
    (FetchDone /\ GotData /\ raised = "none")
    => /\ Len(tasks_df.rows) = Len(Kept(FetchedData))
       /\ \A i, j \in 1..Len(tasks_df.rows) :
             tasks_df.rows[i]["date"] = tasks_df.rows[j]["date"]

\* C3: the frame make_tasks_df returns holds, in input order, the mapped fields
\* of the records with a project, and once insert_to_table has run against a
\* missing or provisioned table (and neither the database nor a signal ended
\* it) the table has the destination columns creation_date, project,
\* accumulated_time_s, username, task, task_time_s and holds its earlier rows
\* followed by the frame's rows under those columns.
C3_EndToEndFieldMapping ==
    /\ (FetchDone /\ GotData /\ raised = "none")
       => /\ Len(tasks_df.rows) = Len(Kept(FetchedData))
          /\ \A i \in 1..Len(tasks_df.rows) :
                \E d \in Dates :
                   ToDestination(tasks_df.rows[i]) = ExpectedRow(Kept(FetchedData)[i], d)
    /\ (/\ InsertDone
        /\ ~EnvFault
        /\ (~tableAtCall.exists \/ tableAtCall.columns = DDLColumns))
       => /\ raised = "none"
          /\ table.exists
          /\ table.columns = DDLColumns
          /\ table.rows = tableAtCall.rows
                          \o [i \in 1..Len(tasks_df.rows) |->
                                 ToDestination(tasks_df.rows[i])]

\* C4: whenever create_table has been called, it raised nothing, the table
\* exists, a table that was missing now has the fixed schema and no rows, and a
\* table that existed is what it was.
C4_ProvisioningIdempotent ==
    lastCall = "create_table"
    => /\ raised = "none"
       /\ table.exists
       /\ IF tableAtCall.exists
          THEN table = tableAtCall
          ELSE table = [exists |-> TRUE, columns |-> DDLColumns, rows |-> <<>>]

\* C5: whenever a call of insert_to_table is over that neither the database
\* nor a signal ended, it succeeded and the table holds the rows it held before
\* the call, unchanged, followed by the rows of the batch.
C5_WriterAppendLaw ==
    (InsertDone /\ ~EnvFault)
    => /\ raised = "none"
       /\ table.exists
       /\ table.rows = tableAtCall.rows \o BatchStored(table.columns)

\* C6: whenever make_tasks_df was answered with a transport error, a non-2xx
\* status, a body that is not JSON or a body without `data`, it raised, no
\* frame was produced, insert_to_table was not called, the table is unchanged
\* and a run of main has ended with a non-zero status.
C6_FetchFailureAborts ==
    (/\ FetchDone
     /\ (resp.error \/ ~Is2xx(resp.status) \/ ~resp.body.json \/ ~resp.body.has_data))
    => /\ raised # "none"
       /\ ~tasks_df.assigned
       /\ nWrite = 0
       /\ table = tableAtCall
       /\ mode = "main" => (pc = "exit" /\ exitCode # 0)

C8_MalformedRecordAborts ==
    /\ (/\ FetchDone
        /\ GotData
        /\ \E i \in 1..Len(FetchedData) : Malformed(FetchedData[i]))
       => /\ raised # "none"
          /\ ~tasks_df.assigned
          /\ mode = "main" => (pc = "exit" /\ exitCode # 0)
    /\ ~tasks_df.assigned => (nWrite = 0 /\ table.rows = tableAtCall.rows)

\* make_tasks_df met a record without `name` after a complete one
C8_Witness ==
    /\ FetchDone
    /\ GotData
    /\ FetchedData = <<TaskAlpha, TaskNoName>>
    /\ raised = "KeyError"
    /\ ~tasks_df.assigned
    /\ table.rows = tableAtCall.rows

\* C9: from the moment insert_to_table is called, the table is either what
\* it was when the call began or that with every row of the batch appended,
\* never with some of them; until the commit it is what it was; and once the
\* call is over, however it ended, the connection is released and no
\* transaction is left open.
C9_AtomicBatchWrite ==
    lastCall = "insert_to_table"
    => /\ \/ table = tableAtCall
          \/ /\ table.exists
             /\ table.rows = tableAtCall.rows \o BatchStored(table.columns)
       /\ pc \in {"to_sql", "to_sql_rows"} => table = tableAtCall
       /\ ~InInsert => (conn = "closed" /\ ~txn.active)

\* insert_to_table in the middle of a batch: one of its two rows was sent,
\* the commit is still to come (a database error or a stop can strike here),
\* and the table is what it was
C9_Witness ==
    /\ lastCall = "insert_to_table"
    /\ pc = "to_sql_rows"
    /\ conn = "open"
    /\ Len(tasks_df.rows) = 2
    /\ Len(txn.rows) = 1
    /\ table = tableAtCall

\* the statements of main (lines 224-230), in order
MainSteps == <<"get_path", "Credentials.from_file", "DB.from_file",
               "create_table", "make_tasks_df", "insert_to_table">>

====
